---- MODULE Spec2Model ----
(***************************************************************************)
(* Applicant-tracking application: CV text extraction and keyword scoring  *)
(* (supabase/functions/parse-cv/index.ts, src/utils/extractPdfText.ts) and *)
(* the callers that extract, score and store (parse-cv handler, the admin  *)
(* dashboard's analyzeCV / analyzeAllCVs).                                  *)
(*                                                                         *)
(* JavaScript strings are modelled as TLA+ strings; a character is a       *)
(* string of length 1 and positions are 1-based.                           *)
(***************************************************************************)
EXTENDS Integers, Sequences, FiniteSets, TLC

VARIABLES
    text,             \* calculateKeywordMatch: argument `text`
    customKeywords,   \* calculateKeywordMatch: argument `customKeywords`
    scored,           \* the value calculateKeywordMatch returned, or NoResult
    pdf,              \* extractor: the document behind the bytes it was given
    extractor,        \* extractor: which of the two functions is running
    pc,               \* extractor: where the call is
    pageNum,          \* extractor: the loop variable (pageNum / i)
    fullText,         \* extractor: the accumulator (fullText / text)
    visited,          \* extractor: the page numbers passed to getPage, in order
    returned,         \* extractor: the string the call returned
    applicants,       \* database: table public.applicants, by id
    cvs,              \* storage: bucket "cvs", by path
    invocations,      \* parse-cv: the invocations in flight
    responses,        \* parse-cv: the responses sent and not yet consumed
    dashApplicants,   \* dashboard: the state `applicants` (rows as last fetched)
    keywords,         \* dashboard: the state `keywords` (the input field)
    dash,             \* dashboard: the handler that is running and where it is
    toast,            \* dashboard: the toast shown last
    jobKeywords,      \* parse-cv module: the array JOB_KEYWORDS as it is now
    calls,            \* the calls of calculateKeywordMatch made so far, in order
    session,          \* browser: the auth session of the Supabase client, if any
    location,         \* browser: the route shown
    loading,          \* admin page: the page is mounted and getSession() is pending
    detailApplicant,  \* detail page: the state `applicant`
    statusUpdate,     \* admin pages: the updateStatus call that is running
    notifications,    \* send-status-notification: the invocations and their answers
    cvFile,           \* application form: the state `cvFile`
    isSubmitting,     \* application form: the state `isSubmitting`
    isSuccess,        \* application form: the state `isSuccess`
    formToast,        \* application form: the toast shown last
    submission        \* application form: the onSubmit call that is running

scoreVars == <<text, customKeywords, scored>>
extractVars == <<pdf, extractor, pc, pageNum, fullText, visited, returned>>
systemVars == <<applicants, cvs, invocations, responses, dashApplicants, keywords,
                dash, toast>>
moduleVars == <<jobKeywords, calls>>
adminVars == <<session, location, loading, detailApplicant, statusUpdate, notifications>>
formVars == <<cvFile, isSubmitting, isSuccess, formToast, submission>>
otherVars == <<moduleVars, adminVars, formVars>>
vars == <<scoreVars, extractVars, systemVars, otherVars>>

NoResult == [none |-> TRUE]

\* const JOB_KEYWORDS = [...]: the built-in vocabulary as the module declares it
JOB_KEYWORDS == <<
    "java", "javascript", "typescript", "python", "c++", "c#", "ruby", "php", "swift",
    "kotlin", "go", "rust", "scala",
    "html", "css", "react", "angular", "vue", "node.js", "nodejs", "express", "next.js",
    "nextjs", "tailwind",
    "sql", "mysql", "postgresql", "mongodb", "redis", "oracle", "sqlite", "dynamodb",
    "firebase",
    "aws", "azure", "gcp", "docker", "kubernetes", "jenkins", "ci/cd", "terraform",
    "ansible",
    "japanese", "jlpt", "n1", "n2", "n3", "n4", "n5", "english", "mandarin", "korean",
    "communication", "leadership", "teamwork", "problem-solving", "analytical",
    "project management",
    "bachelor", "master", "phd", "doctorate", "degree", "university", "college",
    "certification",
    "senior", "junior", "lead", "manager", "architect", "developer", "engineer",
    "analyst", "consultant",
    "api", "rest", "graphql", "microservices", "agile", "scrum", "git", "linux",
    "machine learning", "ai", "data science" >>

\* the module state of parse-cv before any call
ModuleIdle ==
    /\ jobKeywords = JOB_KEYWORDS
    /\ calls = << >>

NoStatusUpdate ==
    [page |-> "none", pc |-> "idle", id |-> 0, newStatus |-> "none", applicant |-> << >>]

\* a route of the application; id is the :id of /admin/applicant/:id, 0 elsewhere
Route(path, id) == [path |-> path, id |-> id]

\* the browser before anyone has signed in or opened an admin page, and the
\* notification function before any invocation
AdminIdle ==
    /\ session = FALSE
    /\ location = Route("/", 0)
    /\ loading = FALSE
    /\ detailApplicant = << >>
    /\ statusUpdate = NoStatusUpdate
    /\ notifications = {}

NoSubmission == [pc |-> "idle", file |-> << >>, data |-> << >>, path |-> 0]

\* the application form as it is mounted
FormIdle ==
    /\ cvFile = << >>
    /\ isSubmitting = FALSE
    /\ isSuccess = FALSE
    /\ formToast = "none"
    /\ submission = NoSubmission

\* a document whose bytes are no PDF
Unparsable == [parses |-> FALSE, pages |-> << >>, badPage |-> 0]

\* the variables of the scoring specification before any call
ScoreIdle ==
    /\ text = ""
    /\ customKeywords = << >>
    /\ scored = NoResult

\* the variables of the extraction specification before any call
ExtractIdle ==
    /\ pdf = Unparsable
    /\ extractor = "none"
    /\ pc = "idle"
    /\ pageNum = 0
    /\ fullText = ""
    /\ visited = << >>
    /\ returned = ""

MaxApplicants == 2

ApplicantIds == 1..MaxApplicants

NoRow == [none |-> TRUE]
NoFile == [none |-> TRUE]
NoToast == [kind |-> "none", applicantId |-> 0]
DashIdle == [op |-> "idle", pc |-> "idle", queue |-> << >>, customKeywords |-> << >>]

\* the system before the first submission: an empty table and an empty bucket
SystemIdle ==
    /\ applicants = [id \in ApplicantIds |-> NoRow]
    /\ cvs = [path \in ApplicantIds |-> NoFile]
    /\ invocations = {}
    /\ responses = {}
    /\ dashApplicants = << >>
    /\ keywords = ""
    /\ dash = DashIdle
    /\ toast = NoToast

(***************************************************************************)
(* String primitives of the JavaScript runtime.                            *)
(***************************************************************************)
charAt(s, i) == SubSeq(s, i, i)

UpperLetters == "ABCDEFGHIJKLMNOPQRSTUVWXYZ"
LowerLetters == "abcdefghijklmnopqrstuvwxyz"
Digits == "0123456789"

CharsOf(s) == {charAt(s, i) : i \in 1..Len(s)}

LowerOf == [c \in CharsOf(UpperLetters) |->
              LET i == CHOOSE j \in 1..Len(UpperLetters) : charAt(UpperLetters, j) = c
              IN  charAt(LowerLetters, i)]

\* String.prototype.toLowerCase on one character
toLowerChar(c) == IF c \in DOMAIN LowerOf THEN LowerOf[c] ELSE c

\* mutant of toLowerCase: the string is left in the case it came in
toLowerCaseMissing(s) == s

RECURSIVE toLowerCase(_)
\* String.prototype.toLowerCase, one character at a time (the string is split
\* in halves only to keep the evaluation shallow; a string that holds no
\* upper-case letter is returned as it is, which is what the characters' images
\* put together are)
toLowerCase(s) ==
    IF \A i \in 1..Len(s) : charAt(s, i) \notin DOMAIN LowerOf THEN s
    ELSE IF Len(s) = 1 THEN toLowerChar(s)
    ELSE LET h == Len(s) \div 2
         IN  toLowerCase(SubSeq(s, 1, h)) \o toLowerCase(SubSeq(s, h + 1, Len(s)))

\* the regular-expression class \s, and the characters String.prototype.trim removes
WhiteSpace == {" ", "\t", "\n", "\r"}
isWhiteSpace(c) == c \in WhiteSpace

\* the regular-expression class \w, which decides where \b holds
WordChars == CharsOf(UpperLetters) \cup CharsOf(LowerLetters) \cup CharsOf(Digits) \cup {"_"}
isWordChar(c) == c \in WordChars

\* String.prototype.includes
includes(t, k) ==
    \E i \in 1..(Len(t) - Len(k) + 1) : SubSeq(t, i, i + Len(k) - 1) = k

(***************************************************************************)
(* Text extraction: the part both extractors share                         *)
(* (parse-cv/index.ts 44-53, extractPdfText.ts 10-17).  A page is the      *)
(* sequence of the `str` fields of its text items, in the order pdf.js     *)
(* reports them.                                                           *)
(***************************************************************************)
\* the sequences over S of length at most n
SeqsUpTo(S, n) == UNION {[1..m -> S] : m \in 0..n}

RECURSIVE join(_, _)
\* Array.prototype.join
join(strings, sep) ==
    IF Len(strings) = 0 THEN ""
    ELSE IF Len(strings) = 1 THEN strings[1]
    ELSE strings[1] \o sep \o join(Tail(strings), sep)

\* one iteration of the page loop: strings.join(" ") + "\n"
pageText(items) == join(items, " ") \o "\n"

\* mutant of appendPage: the page's text is put in front of what was read before
prependPage(acc, items) == pageText(items) \o acc

\* fullText += strings.join(" ") + "\n"
appendPage(acc, items) == acc \o pageText(items)

RECURSIVE dropLeadingWhiteSpace(_)
dropLeadingWhiteSpace(s) ==
    IF s # "" /\ isWhiteSpace(charAt(s, 1)) THEN dropLeadingWhiteSpace(Tail(s)) ELSE s

RECURSIVE dropTrailingWhiteSpace(_)
dropTrailingWhiteSpace(s) ==
    IF s # "" /\ isWhiteSpace(charAt(s, Len(s)))
    THEN dropTrailingWhiteSpace(SubSeq(s, 1, Len(s) - 1)) ELSE s

\* String.prototype.trim
trim(s) == dropTrailingWhiteSpace(dropLeadingWhiteSpace(s))

RECURSIVE eachWhiteSpaceToSpace(_, _, _)
\* mutant of replaceWhiteSpaceRuns: /\s/g in place of /\s+/g, every white-space
\* character becomes a space of its own
eachWhiteSpaceToSpace(s, lo, hi) ==
    IF lo > hi THEN ""
    ELSE IF lo = hi
         THEN (IF isWhiteSpace(charAt(s, lo)) THEN " " ELSE charAt(s, lo))
    ELSE LET mid == (lo + hi) \div 2
         IN  eachWhiteSpaceToSpace(s, lo, mid) \o eachWhiteSpaceToSpace(s, mid + 1, hi)

RECURSIVE replaceWhiteSpaceRuns(_, _, _)
\* s.replace(/\s+/g, " ") on positions lo..hi of s: a maximal run of white space
\* becomes one space, written where the run starts; other characters are kept
replaceWhiteSpaceRuns(s, lo, hi) ==
    IF lo > hi THEN ""
    ELSE IF lo = hi
         THEN (IF ~isWhiteSpace(charAt(s, lo)) THEN charAt(s, lo)
               ELSE IF lo > 1 /\ isWhiteSpace(charAt(s, lo - 1)) THEN ""
               ELSE " ")
    ELSE LET mid == (lo + hi) \div 2
         IN  replaceWhiteSpaceRuns(s, lo, mid) \o replaceWhiteSpaceRuns(s, mid + 1, hi)

\* the return statement: fullText.replace(/\s+/g, " ").trim()
normalize(s) == trim(replaceWhiteSpaceRuns(s, 1, Len(s)))

RECURSIVE concatPages(_)
\* fullText after the loop has run over `pages`
concatPages(pages) ==
    IF Len(pages) = 0 THEN "" ELSE pageText(pages[1]) \o concatPages(Tail(pages))

(***************************************************************************)
(* A PDF as pdf.js sees it: getDocument either rejects (parses = FALSE) or  *)
(* yields numPages pages; getPage / getTextContent of page badPage rejects  *)
(* (badPage = 0: none does).                                                *)
(***************************************************************************)
MaxPages == 2

PageContents == {
    << >>,
    <<"">>,
    <<"Go", "", "daily">>,
    <<" lead\n", "\tdev  ops ">>,
    <<"\n", " ">>,
    <<"c++">> }

Documents ==
    {Unparsable} \cup
    {[parses |-> TRUE, pages |-> ps, badPage |-> b] :
        ps \in SeqsUpTo(PageContents, MaxPages), b \in 0..MaxPages}

numPages(d) == Len(d.pages)

InitExtract ==
    /\ pdf \in {d \in Documents : d.badPage <= numPages(d)}
    /\ extractor \in {"extractTextFromPDF", "extractPdfTextFromBlob"}
    /\ pc = "getDocument"
    /\ pageNum = 0
    /\ fullText = ""
    /\ visited = << >>
    /\ returned = ""
    /\ ScoreIdle
    /\ SystemIdle
    /\ ModuleIdle
    /\ AdminIdle
    /\ FormIdle

\* await getDocument(...).promise resolves; let fullText = ""; pageNum = 1
GetDocument ==
    /\ pc = "getDocument"
    /\ pdf.parses
    /\ pc' = "loop"
    /\ pageNum' = 1
    /\ fullText' = ""
    /\ UNCHANGED <<pdf, extractor, visited, returned, scoreVars, systemVars, otherVars>>

\* await getDocument(...).promise rejects: the bytes are no PDF
GetDocumentRejects ==
    /\ pc = "getDocument"
    /\ ~pdf.parses
    /\ pc' = "rejected"
    /\ UNCHANGED <<pdf, extractor, pageNum, fullText, visited, returned, scoreVars, systemVars, otherVars>>

\* one iteration: getPage(pageNum), getTextContent(), fullText += ... + "\n"
ReadPage ==
    /\ pc = "loop"
    /\ pageNum <= numPages(pdf)
    /\ pageNum # pdf.badPage
    /\ visited' = Append(visited, pageNum)
    /\ fullText' = appendPage(fullText, pdf.pages[pageNum])
    /\ pageNum' = pageNum + 1
    /\ UNCHANGED <<pdf, extractor, pc, returned, scoreVars, systemVars, otherVars>>

\* one iteration whose getPage / getTextContent rejects
ReadPageRejects ==
    /\ pc = "loop"
    /\ pageNum <= numPages(pdf)
    /\ pageNum = pdf.badPage
    /\ visited' = Append(visited, pageNum)
    /\ pc' = "rejected"
    /\ UNCHANGED <<pdf, extractor, pageNum, fullText, returned, scoreVars, systemVars, otherVars>>

\* the loop is over: return fullText.replace(/\s+/g, " ").trim()
ReturnText ==
    /\ pc = "loop"
    /\ pageNum > numPages(pdf)
    /\ returned' = normalize(fullText)
    /\ pc' = "returned"
    /\ UNCHANGED <<pdf, extractor, pageNum, fullText, visited, scoreVars, systemVars, otherVars>>

\* extractTextFromPDF: catch (err) { console.error(...); return ""; }
CatchReturnEmpty ==
    /\ pc = "rejected"
    /\ extractor = "extractTextFromPDF"
    /\ returned' = ""
    /\ pc' = "returned"
    /\ UNCHANGED <<pdf, extractor, pageNum, fullText, visited, scoreVars, systemVars, otherVars>>

\* extractPdfTextFromBlob has no try/catch: the rejection reaches the caller
Propagate ==
    /\ pc = "rejected"
    /\ extractor = "extractPdfTextFromBlob"
    /\ pc' = "raised"
    /\ UNCHANGED <<pdf, extractor, pageNum, fullText, visited, returned, scoreVars, systemVars, otherVars>>

NextExtract ==
    \/ GetDocument
    \/ GetDocumentRejects
    \/ ReadPage
    \/ ReadPageRejects
    \/ ReturnText
    \/ CatchReturnEmpty
    \/ Propagate

SpecExtract == InitExtract /\ [][NextExtract]_vars

\* C8: an extractor given bytes that are no PDF returns "" and does not raise.
C8_Original ==
    (~pdf.parses /\ pc \in {"returned", "raised"}) => (pc = "returned" /\ returned = "")

\* C10: a returned string has no two white-space characters in a row and no
\* white space at either end.
C10_WhiteSpaceNormalized ==
    pc = "returned" =>
        /\ \A i \in 1..(Len(returned) - 1) :
               ~(isWhiteSpace(charAt(returned, i)) /\ isWhiteSpace(charAt(returned, i + 1)))
        /\ returned # "" =>
               /\ ~isWhiteSpace(charAt(returned, 1))
               /\ ~isWhiteSpace(charAt(returned, Len(returned)))

C10_Witness ==
    /\ pc = "returned"
    /\ pdf.pages = << <<" lead\n", "\tdev  ops ">>, <<"Go", "", "daily">> >>
    /\ returned = "lead dev ops Go daily"

RECURSIVE fragments(_)
\* the text fragments of a document: page 1's in the order reported, then page 2's, ...
fragments(pages) ==
    IF Len(pages) = 0 THEN << >> ELSE pages[1] \o fragments(Tail(pages))

RECURSIVE withoutWhiteSpace(_)
\* s with its white-space characters left out
withoutWhiteSpace(s) ==
    IF s = "" THEN ""
    ELSE (IF isWhiteSpace(charAt(s, 1)) THEN "" ELSE charAt(s, 1))
         \o withoutWhiteSpace(Tail(s))

\* C11: the pages visited are always 1, 2, ... in ascending order, each once; an
\* extraction that reaches its return statement has visited every page from 1
\* through numPages, and what it returns is, white space apart, the fragments of
\* page 1 in the order reported, then those of page 2, and so on.
C11_PagesInAscendingOrder ==
    /\ visited = [i \in 1..Len(visited) |-> i]
    /\ Len(visited) <= numPages(pdf)
    /\ (pc \in {"returned", "raised"} /\ pdf.parses /\ pdf.badPage \notin 1..numPages(pdf)) =>
           /\ pc = "returned"
           /\ visited = [i \in 1..numPages(pdf) |-> i]
           /\ withoutWhiteSpace(returned) = withoutWhiteSpace(join(fragments(pdf.pages), ""))

C11_Witness ==
    /\ pc = "returned"
    /\ pdf.pages = << <<"Go", "", "daily">>, <<"c++">> >>
    /\ visited = <<1, 2>>
    /\ returned = "Go daily c++"

(***************************************************************************)
(* Keyword scoring (parse-cv/index.ts 14-96).                              *)
(***************************************************************************)
Range(seq) == {seq[i] : i \in 1..Len(seq)}

\* /[^a-z0-9\s]/i.test(k): some character is neither a letter, a digit nor white space
hasSymbol(k) ==
    \E i \in 1..Len(k) :
        LET c == charAt(k, i)
        IN  ~(c \in CharsOf(LowerLetters) \/ c \in CharsOf(UpperLetters)
              \/ c \in CharsOf(Digits) \/ isWhiteSpace(c))

RegExpSpecials == {".", "*", "+", "?", "^", "$", "{", "}", "(", ")", "|", "[", "]", "\\"}

RECURSIVE escapeRegExp(_)
\* k.replace(/[.*+?^${}()|[\]\\]/g, "\\$&")
escapeRegExp(k) ==
    IF k = "" THEN ""
    ELSE (IF charAt(k, 1) \in RegExpSpecials THEN "\\" ELSE "") \o charAt(k, 1)
         \o escapeRegExp(Tail(k))

RECURSIVE patternLiteral(_)
\* the string a pattern made of plain and backslash-escaped characters stands for
patternLiteral(p) ==
    IF p = "" THEN ""
    ELSE IF charAt(p, 1) = "\\" /\ Len(p) >= 2
         THEN charAt(p, 2) \o patternLiteral(SubSeq(p, 3, Len(p)))
    ELSE charAt(p, 1) \o patternLiteral(Tail(p))

\* the assertion \b between positions p-1 and p of t
isWordBoundary(t, p) ==
    LET before == p > 1 /\ isWordChar(charAt(t, p - 1))
        after  == p <= Len(t) /\ isWordChar(charAt(t, p))
    IN  before # after

\* new RegExp(`\\b${escaped}\\b`, "i").test(t); t and the pattern are lower-cased
\* by the caller, so the flag i changes nothing
testWordBounded(t, escaped) ==
    LET lit == patternLiteral(escaped)
    IN  \E i \in 1..(Len(t) - Len(lit) + 1) :
            /\ SubSeq(t, i, i + Len(lit) - 1) = lit
            /\ isWordBoundary(t, i)
            /\ isWordBoundary(t, i + Len(lit))

\* mutant of keywordExists: every term is looked up with includes()
keywordExistsAlwaysIncludes(txt, keyword) ==
    includes(toLowerCase(txt), toLowerCase(keyword))

\* mutant of keywordExists: every term goes through the \b...\b expression
keywordExistsAlwaysBounded(txt, keyword) ==
    testWordBounded(toLowerCase(txt), escapeRegExp(toLowerCase(keyword)))

keywordExists(txt, keyword) ==
    LET t == toLowerCase(txt)
        k == toLowerCase(keyword)
    IN  IF hasSymbol(k) THEN includes(t, k)
        ELSE testWordBounded(t, escapeRegExp(k))

\* customKeywords.map(k => k.toLowerCase())
mapToLowerCase(seq) == [i \in 1..Len(seq) |-> toLowerCase(seq[i])]

\* mutant of spreadSet: the array is left as it is, duplicates included
spreadNoSet(seq) == seq

\* mutant of spreadSet: a set that keeps the last occurrence of each value
spreadSetKeepLast(seq) ==
    LET idx == SelectSeq([i \in 1..Len(seq) |-> i],
                         LAMBDA i : \A j \in (i + 1)..Len(seq) : seq[j] # seq[i])
    IN  [n \in 1..Len(idx) |-> seq[idx[n]]]

\* [...new Set(seq)]: a Set iterates in insertion order, each value once
spreadSet(seq) ==
    LET idx == SelectSeq([i \in 1..Len(seq) |-> i],
                         LAMBDA i : \A j \in 1..(i - 1) : seq[j] # seq[i])
    IN  [n \in 1..Len(idx) |-> seq[idx[n]]]

\* mutant of scoreOf: the cap Math.min(100, ...) is missing
scoreOfUncapped(n) == n * 10

\* Math.min(100, matchedKeywords.length * 10)
scoreOf(n) == IF n * 10 < 100 THEN n * 10 ELSE 100

\* the body of calculateKeywordMatch, builtIn being what it reads from JOB_KEYWORDS
calculateKeywordMatchWith(builtIn, txt, custom) ==
    LET lowerText   == toLowerCase(txt)
        allKeywords == spreadSet(builtIn \o mapToLowerCase(custom))
        matchedKeywords == SelectSeq(allKeywords, LAMBDA keyword : keywordExists(lowerText, keyword))
    IN  [score |-> scoreOf(Len(matchedKeywords)), matchedKeywords |-> matchedKeywords]

\* calculateKeywordMatch in a module whose JOB_KEYWORDS is as declared
calculateKeywordMatch(txt, custom) == calculateKeywordMatchWith(JOB_KEYWORDS, txt, custom)

\* mutant of jobKeywordsAfter: the call pushes the custom terms onto JOB_KEYWORDS
jobKeywordsAfterPush(builtIn, custom) == builtIn \o mapToLowerCase(custom)

\* JOB_KEYWORDS after a call: [...JOB_KEYWORDS, ...] copies the array, and neither
\* calculateKeywordMatch nor keywordExists assigns to it or to any other binding
\* outside its own body (both regular expressions are made anew in each call and
\* carry no flag g, so no lastIndex survives a test)
jobKeywordsAfter(builtIn, custom) == builtIn

(***************************************************************************)
(* Inputs of the scoring specification.  calculateKeywordMatch has one     *)
(* call site (parse-cv/index.ts 141), whose text is what                   *)
(* extractTextFromPDF returned: the texts are the extractions of one-page  *)
(* documents whose text items are drawn from Words, and of the sample      *)
(* documents.  customKeywords comes from the request body unchecked.       *)
(***************************************************************************)
MaxWords == 2

Words == {"Go", "going", "go_lang", "c++", ".", "Python", "kanji"}

SampleTexts == {
    "I am going home",
    "I use Go daily",
    "Experienced in C++ and CI/CD pipelines",
    "Senior Python developer with AWS and Docker experience, JLPT N2 certified",
    "Java Python SQL AWS Docker React Git Linux API REST Agile Scrum" }

ScoreTexts ==
    {normalize(concatPages(<<items>>)) : items \in SeqsUpTo(Words, MaxWords)}
        \cup {normalize(concatPages(<< <<t>> >>)) : t \in SampleTexts}

CustomLists == {
    << >>,
    <<"">>,
    <<" ">>,
    <<"go ">>,
    <<" go">>,
    <<"kanji\tgo">>,
    <<"PYTHON">>,
    <<"Kanji", "KANJI", "python">>,
    <<"going", "kanji", "Go">>,
    <<"C++", "n2", "ing">> }

InitScore ==
    /\ text \in ScoreTexts
    /\ customKeywords \in CustomLists
    /\ scored = NoResult
    /\ ExtractIdle
    /\ SystemIdle
    /\ ModuleIdle
    /\ AdminIdle
    /\ FormIdle

\* one call of calculateKeywordMatch(text, customKeywords)
Score ==
    /\ scored = NoResult
    /\ scored' = calculateKeywordMatch(text, customKeywords)
    /\ UNCHANGED <<text, customKeywords, extractVars, systemVars, otherVars>>

NextScore == Score

SpecScore == InitScore /\ [][NextScore]_vars

(***************************************************************************)
(* Properties of the scoring specification.                                *)
(***************************************************************************)
HasResult == "score" \in DOMAIN scored

\* the terms scanned: built-in terms and the lower-cased custom terms
Vocabulary == Range(JOB_KEYWORDS) \cup {toLowerCase(customKeywords[i]) : i \in 1..Len(customKeywords)}

Matched == Range(scored.matchedKeywords)

\* C1: the score is between 0 and 100 and equals min(100, 10 * number of matched
\* terms); ten or more matched terms give exactly 100.
C1_ScoreIsCappedTenfold ==
    HasResult =>
        LET n == Len(scored.matchedKeywords)
        IN  /\ 0 <= scored.score /\ scored.score <= 100
            /\ (n < 10 => scored.score = 10 * n)
            /\ (n >= 10 => scored.score = 100)

C1_Witness == HasResult /\ Len(scored.matchedKeywords) > 10 /\ scored.score = 100

\* every character of term is one of a-z, 0-9 or the space
onlyAlnumSpace(term) ==
    \A i \in 1..Len(term) :
        charAt(term, i) \in CharsOf(LowerLetters) \cup CharsOf(Digits) \cup {" "}

isAlnum(c) == c \in CharsOf(LowerLetters) \cup CharsOf(Digits)

\* term occurs in t with no token character next to it on either side
occursAsWholeToken(term, t) ==
    \E i \in 1..(Len(t) - Len(term) + 1) :
        /\ SubSeq(t, i, i + Len(term) - 1) = term
        /\ (i = 1 \/ ~isWordChar(charAt(t, i - 1)))
        /\ (i + Len(term) > Len(t) \/ ~isWordChar(charAt(t, i + Len(term))))

\* C2 as stated: every term made only of a-z, 0-9 and spaces is matched exactly
\* when it occurs in the lower-cased text as a whole token.
C2_Original ==
    HasResult =>
        \A term \in Vocabulary :
            onlyAlnumSpace(term) =>
                ((term \in Matched) <=> occursAsWholeToken(term, toLowerCase(text)))

\* C2 (amended): a non-empty term made only of a-z, 0-9 and spaces that begins and
\* ends with a letter or digit is matched exactly when it occurs in the
\* lower-cased text as a whole token, never inside a larger token.
C2_WholeTokenMatch ==
    HasResult =>
        \A term \in Vocabulary :
            (/\ onlyAlnumSpace(term)
             /\ term # ""
             /\ isAlnum(charAt(term, 1))
             /\ isAlnum(charAt(term, Len(term)))) =>
                ((term \in Matched) <=> occursAsWholeToken(term, toLowerCase(text)))

C2_Witness ==
    /\ HasResult
    /\ includes(toLowerCase(text), "go")
    /\ "go" \notin Matched
    /\ "going" \in Matched

\* C3: a term with a character outside a-z, 0-9 and the space is matched exactly
\* when the lower-cased term is a substring of the lower-cased text.
C3_SymbolTermSubstring ==
    HasResult =>
        \A term \in Vocabulary :
            ~onlyAlnumSpace(term) =>
                ((term \in Matched) <=> includes(toLowerCase(text), term))

C3_Witness ==
    /\ HasResult
    /\ text = "Experienced in C++ and CI/CD pipelines"
    /\ {"c++", "ci/cd"} \subseteq Matched

\* C4: no term is listed twice in matchedKeywords.
C4_NoDuplicateMatches ==
    HasResult =>
        \A i, j \in 1..Len(scored.matchedKeywords) :
            i # j => scored.matchedKeywords[i] # scored.matchedKeywords[j]

C4_Witness ==
    /\ HasResult
    /\ customKeywords = <<"PYTHON">>
    /\ scored.matchedKeywords = <<"python">>

\* C5: matchedKeywords lists terms of the vocabulary ordered by their first
\* occurrence in the built-in list followed by the lower-cased custom terms.
C5_VocabularyScanOrder ==
    HasResult =>
        LET all == JOB_KEYWORDS \o [i \in 1..Len(customKeywords) |-> toLowerCase(customKeywords[i])]
            first(term) == CHOOSE i \in 1..Len(all) :
                               all[i] = term /\ \A j \in 1..(i - 1) : all[j] # term
            m == scored.matchedKeywords
        IN  /\ Matched \subseteq Range(all)
            /\ \A i, j \in 1..Len(m) : i < j => first(m[i]) < first(m[j])

C5_Witness ==
    /\ HasResult
    /\ customKeywords = <<"Kanji", "KANJI", "python">>
    /\ scored.matchedKeywords = <<"python", "kanji">>

\* C6: the empty text scores 0 with no matched term, whatever the custom terms.
C6_EmptyTextScoresZero ==
    (HasResult /\ text = "") => scored = [score |-> 0, matchedKeywords |-> << >>]

C6_Witness == HasResult /\ text = "" /\ customKeywords \in {<<"">>, <<" ">>}

C7Text == "Senior Python developer with AWS and Docker experience, JLPT N2 certified"

\* C7 as stated: the sample text matches exactly python, aws, docker, senior and n2
\* and scores 50.
C7_Original ==
    (HasResult /\ text = C7Text /\ customKeywords = << >>) =>
        /\ Matched = {"python", "aws", "docker", "senior", "n2"}
        /\ scored.score = 50

\* C7 (amended): the sample text matches the seven terms python, aws, docker, jlpt,
\* n2, senior and developer, in that order, and scores 70.
C7_SampleScoresSeventy ==
    (HasResult /\ text = C7Text /\ customKeywords = << >>) =>
        /\ scored.matchedKeywords =
               <<"python", "aws", "docker", "jlpt", "n2", "senior", "developer">>
        /\ scored.score = 70

C7_Witness == HasResult /\ text = C7Text /\ customKeywords = << >>

(***************************************************************************)
(* Repeated scoring: one instance of the parse-cv module serves several    *)
(* calls of calculateKeywordMatch, one after the other.                    *)
(***************************************************************************)
MaxCalls == 3

RepeatTexts == {"", "I use Go daily", "Kanji and Python going"}

RepeatCustomLists == {<< >>, <<"going", "kanji", "Go">>}

InitRepeat ==
    /\ ScoreIdle
    /\ ExtractIdle
    /\ SystemIdle
    /\ ModuleIdle
    /\ AdminIdle
    /\ FormIdle

\* one call calculateKeywordMatch(t, c) in the module as the calls before left it
Call(t, c) ==
    /\ Len(calls) < MaxCalls
    /\ LET result == calculateKeywordMatchWith(jobKeywords, t, c)
       IN  /\ text' = t
           /\ customKeywords' = c
           /\ scored' = result
           /\ calls' = Append(calls, [text |-> t, customKeywords |-> c, result |-> result])
    /\ jobKeywords' = jobKeywordsAfter(jobKeywords, c)
    /\ UNCHANGED <<extractVars, systemVars, adminVars, formVars>>

NextRepeat == \E t \in RepeatTexts, c \in RepeatCustomLists : Call(t, c)

SpecRepeat == InitRepeat /\ [][NextRepeat]_vars

extractionRejects(d) == ~d.parses \/ d.badPage \in 1..numPages(d)

extractTextFromPDF(d) ==
    IF extractionRejects(d) THEN "" ELSE normalize(concatPages(d.pages))

extractPdfTextFromBlob(d) ==
    IF extractionRejects(d) THEN [raised |-> TRUE, text |-> ""]
    ELSE [raised |-> FALSE, text |-> normalize(concatPages(d.pages))]

ExtractionAgrees ==
    /\ (pc = "returned" /\ extractor = "extractTextFromPDF")
           => returned = extractTextFromPDF(pdf)
    /\ (pc = "returned" /\ extractor = "extractPdfTextFromBlob")
           => extractPdfTextFromBlob(pdf) = [raised |-> FALSE, text |-> returned]
    /\ pc = "raised" => extractPdfTextFromBlob(pdf).raised

\* what applicants enter in the form (the fields the admin pages pass on)
Forms == {
    [fullName |-> "Aiko Mori", email |-> "aiko@example.com",
     preferredCourse |-> "Business Japanese"],
    [fullName |-> "Ben Ito", email |-> "ben@example.com",
     preferredCourse |-> "JLPT N2 Preparation"] }

\* the form data of the specifications that do not look at it
SampleForm == CHOOSE data \in Forms : data.fullName = "Aiko Mori"

\* the CVs applicants upload
SampleCVs == {
    Unparsable,
    [parses |-> TRUE, pages |-> << << >> >>, badPage |-> 0],
    [parses |-> TRUE, pages |-> << <<"Python", "AWS">> >>, badPage |-> 0],
    [parses |-> TRUE,
     pages |-> << <<"Senior Python developer with AWS and Docker experience,">>,
                  <<"JLPT N2 certified">> >>,
     badPage |-> 0] }

\* what the admin types into the custom-keywords field
KeywordInputs == {"", "Kanji, go"}

isSeparator(c) == c = "," \/ isWhiteSpace(c)

RECURSIVE dropLeadingSeparators(_)
dropLeadingSeparators(s) ==
    IF s # "" /\ isSeparator(charAt(s, 1)) THEN dropLeadingSeparators(Tail(s)) ELSE s

RECURSIVE split(_, _)
\* s.split(/[,\s]+/), cur being the piece read so far
split(s, cur) ==
    IF s = "" THEN <<cur>>
    ELSE IF isSeparator(charAt(s, 1))
         THEN <<cur>> \o split(dropLeadingSeparators(s), "")
    ELSE split(Tail(s), cur \o charAt(s, 1))

\* .map((k) => k.trim())
mapTrim(seq) == [i \in 1..Len(seq) |-> trim(seq[i])]

\* keywords.toLowerCase().split(/[,\s]+/).map(k => k.trim()).filter(k => k.length > 0)
parseKeywords(input) ==
    SelectSeq(mapTrim(split(toLowerCase(input), "")), LAMBDA k : Len(k) > 0)

RECURSIVE repeated(_, _)
\* n copies of s, one after the other
repeated(s, n) ==
    IF n = 0 THEN ""
    ELSE IF n = 1 THEN s
    ELSE LET h == repeated(s, n \div 2)
         IN  IF n % 2 = 0 THEN h \o h ELSE h \o h \o s

\* a CV of 50,011 characters of text: "Python", 8,333 times "lorem", and on a
\* second page "Kotlin", which begins at character 50,006
LongCV ==
    [parses |-> TRUE,
     pages |-> << <<"Python", repeated("lorem ", 8333)>>, <<"Kotlin">> >>,
     badPage |-> 0]

\* the CVs of the storing specification
StoreCVs == {
    LongCV,
    [parses |-> TRUE, pages |-> << <<"Kotlin", "and", "Go">> >>, badPage |-> 0],
    [parses |-> TRUE, pages |-> << << >> >>, badPage |-> 0] }

\* the CVs behind the requests the handler specification serves: one with two
\* matching terms and one with more matching terms than the score has room for
HandlerCVs == {
    [parses |-> TRUE, pages |-> << <<"Python", "AWS">> >>, badPage |-> 0],
    [parses |-> TRUE,
     pages |-> << <<"Java Python Ruby PHP Swift Kotlin">>,
                  <<"Go Rust Scala HTML CSS React">> >>,
     badPage |-> 0] }

RECURSIVE tabulatedText(_)
\* the function from each document of `docs` to what extractTextFromPDF returns
\* for it, as a table
tabulatedText(docs) ==
    LET d == CHOOSE e \in docs : TRUE
        entry == d :> extractTextFromPDF(d)
    IN  IF docs = {d} THEN entry ELSE entry @@ tabulatedText(docs \ {d})

\* the extractions the system needs, computed once
extractedTextOf == tabulatedText(SampleCVs \cup StoreCVs \cup HandlerCVs)

RECURSIVE tabulatedBlobText(_)
\* the function from each document of `docs` to the outcome of
\* extractPdfTextFromBlob on it, as a table
tabulatedBlobText(docs) ==
    LET d == CHOOSE e \in docs : TRUE
        entry == d :> extractPdfTextFromBlob(d)
    IN  IF docs = {d} THEN entry ELSE entry @@ tabulatedBlobText(docs \ {d})

\* the extractions the dashboard needs, computed once
blobTextOf == tabulatedBlobText(SampleCVs)

\* the scoring results the system needs, computed once
SystemTexts == {extractTextFromPDF(d) : d \in SampleCVs}
SystemCustomLists == {<< >>} \cup {parseKeywords(k) : k \in KeywordInputs}
StoreTexts == {extractTextFromPDF(d) : d \in StoreCVs}

\* the CVs and the customKeywords of the requests that are served concurrently
ConcurrentCVs == {
    [parses |-> TRUE, pages |-> << <<"Python", "AWS">> >>, badPage |-> 0],
    [parses |-> TRUE, pages |-> << <<"Kotlin", "and", "Go">> >>, badPage |-> 0] }
ConcurrentCustomLists == {<<"and">>, <<"Kanji", "go">>}
ConcurrentTexts == {extractTextFromPDF(d) : d \in ConcurrentCVs}

HandlerTexts == {extractTextFromPDF(d) : d \in HandlerCVs}
RECURSIVE tabulated(_)
\* the function from each pair <<text, custom terms>> of `pairs` to the result of
\* calculateKeywordMatch on it, as a table
tabulated(pairs) ==
    LET p == CHOOSE q \in pairs : TRUE
        entry == p :> calculateKeywordMatch(p[1], p[2])
    IN  IF pairs = {p} THEN entry ELSE entry @@ tabulated(pairs \ {p})

keywordMatch ==
    tabulated((SystemTexts \X SystemCustomLists) \cup (StoreTexts \X {<< >>})
              \cup (ConcurrentTexts \X ({<< >>} \cup ConcurrentCustomLists))
              \cup (HandlerTexts \X {<< >>}))

fileExists(path) == "parses" \in DOMAIN cvs[path]
rowExists(id) == "id" \in DOMAIN applicants[id]

\* the row INSERT creates: status and keyword_match_score take their column
\* defaults, the columns parse-cv fills are null
NewRow(id, path, data) ==
    [id |-> id, full_name |-> data.fullName, email |-> data.email,
     preferred_course |-> data.preferredCourse, cv_file_path |-> path, status |-> "pending",
     keyword_match_score |-> 0, matched_keywords |-> << >>, cv_extracted_text |-> << >>]

Init ==
    /\ SystemIdle
    /\ ScoreIdle
    /\ ExtractIdle
    /\ ModuleIdle
    /\ AdminIdle
    /\ FormIdle

\* Index.tsx onSubmit with a CV selected, upload and insert succeeding: the file
\* is stored, the row inserted and parse-cv invoked without being awaited
Submit(d, data) ==
    /\ \E id \in ApplicantIds :
        /\ ~rowExists(id)
        /\ \A j \in 1..(id - 1) : rowExists(j)
        /\ cvs' = [cvs EXCEPT ![id] = d]
        /\ applicants' = [applicants EXCEPT ![id] = NewRow(id, id, data)]
        /\ invocations' = invocations \cup
               {[caller |-> "form", pc |-> "received",
                 applicantId |-> <<id>>, cvFilePath |-> <<id>>,
                 extractedText |-> << >>, customKeywords |-> << >>]}
    /\ UNCHANGED <<responses, dashApplicants, keywords, dash, toast,
                   scoreVars, extractVars, otherVars>>

\* a response with an error body (status 400 or 500)
ErrorResponse(inv, status, error) ==
    [caller |-> inv.caller, applicantId |-> inv.applicantId, status |-> status,
     error |-> error, success |-> FALSE, extractedTextLength |-> 0, score |-> 0,
     matchedKeywords |-> << >>]

\* the invocation ends with response r
respond(inv, r) ==
    /\ invocations' = invocations \ {inv}
    /\ responses' = responses \cup {r}

\* parse-cv: req.json() and the check of applicantId and cvFilePath
ParseCvReceive(inv) ==
    /\ inv \in invocations
    /\ inv.pc = "received"
    /\ IF inv.applicantId = << >> \/ inv.cvFilePath = << >>
       THEN respond(inv, ErrorResponse(inv, 400, "Missing applicantId or cvFilePath"))
       ELSE /\ invocations' = (invocations \ {inv}) \cup {[inv EXCEPT !.pc = "download"]}
            /\ UNCHANGED responses
    /\ UNCHANGED <<applicants, cvs, dashApplicants, keywords, dash, toast,
                   scoreVars, extractVars, otherVars>>

\* parse-cv: supabase.storage.from("cvs").download(cvFilePath)
ParseCvDownload(inv) ==
    /\ inv \in invocations
    /\ inv.pc = "download"
    /\ IF ~fileExists(inv.cvFilePath[1])
       THEN respond(inv, ErrorResponse(inv, 500, "Failed to download CV"))
       ELSE /\ invocations' = (invocations \ {inv}) \cup {[inv EXCEPT !.pc = "extract"]}
            /\ UNCHANGED responses
    /\ UNCHANGED <<applicants, cvs, dashApplicants, keywords, dash, toast,
                   scoreVars, extractVars, otherVars>>

StoredTextLimit == 50000

\* mutant of storedText: the text is stored whole
storedTextWhole(t) == t

\* extractedText.substring(0, 50000)
storedText(t) == SubSeq(t, 1, IF Len(t) < StoredTextLimit THEN Len(t) ELSE StoredTextLimit)

\* mutant of keywordsWritten: a row that has matched keywords keeps them
keywordsWrittenOnce(row, result) ==
    IF row.matched_keywords = << >> THEN result.matchedKeywords
    ELSE row.matched_keywords[1]

\* the value the update gives matched_keywords on `row`
keywordsWritten(row, result) == result.matchedKeywords

\* mutant of updatedRow: the update writes a whole record, the status again at
\* its default
updatedRowWhole(row, extractedText, result) ==
    [row EXCEPT !.cv_extracted_text = <<storedText(extractedText)>>,
                !.matched_keywords = <<keywordsWritten(row, result)>>,
                !.keyword_match_score = result.score,
                !.status = "pending"]

\* .update({ cv_extracted_text, matched_keywords, keyword_match_score }) on the
\* row the filter .eq("id", applicantId) selects
updatedRow(row, extractedText, result) ==
    [row EXCEPT !.cv_extracted_text = <<storedText(extractedText)>>,
                !.matched_keywords = <<keywordsWritten(row, result)>>,
                !.keyword_match_score = result.score]

\* parse-cv: extract, score, update the row whose id is applicantId, answer
ParseCvStore(inv) ==
    /\ inv \in invocations
    /\ inv.pc = "extract"
    /\ LET extractedText == extractedTextOf[cvs[inv.cvFilePath[1]]]
           custom == IF inv.customKeywords = << >> THEN << >> ELSE inv.customKeywords[1]
           result == IF jobKeywords = JOB_KEYWORDS
                     THEN keywordMatch[extractedText, custom]
                     ELSE calculateKeywordMatchWith(jobKeywords, extractedText, custom)
           id == inv.applicantId[1]
       IN  /\ jobKeywords' = jobKeywordsAfter(jobKeywords, custom)
           /\ applicants' =
                  IF rowExists(id)
                  THEN [applicants EXCEPT ![id] = updatedRow(@, extractedText, result)]
                  ELSE applicants
           /\ respond(inv, [caller |-> inv.caller, applicantId |-> inv.applicantId,
                            status |-> 200, error |-> "", success |-> TRUE,
                            extractedTextLength |-> Len(extractedText),
                            score |-> result.score,
                            matchedKeywords |-> result.matchedKeywords])
    /\ UNCHANGED <<cvs, dashApplicants, keywords, dash, toast, scoreVars, extractVars,
                   calls, adminVars, formVars>>

(***************************************************************************)
(* Storing: applicants submit CVs, among them one whose text is longer     *)
(* than parse-cv stores, and parse-cv serves the invocations of the form.  *)
(***************************************************************************)
NextStore ==
    \/ \E d \in StoreCVs : Submit(d, SampleForm)
    \/ \E inv \in invocations : ParseCvReceive(inv)
    \/ \E inv \in invocations : ParseCvDownload(inv)
    \/ \E inv \in invocations : ParseCvStore(inv)

SpecStore == Init /\ [][NextStore]_vars

\* C13: a row parse-cv has written holds the first 50,000 characters of the text
\* extracted from its CV (all of it when it is shorter), and the score and the
\* matched keywords of the whole extracted text.
C13_StoredTextTruncatedScoreFromFullText ==
    \A id \in ApplicantIds :
        (rowExists(id) /\ applicants[id].cv_extracted_text # << >>) =>
            LET row == applicants[id]
                stored == row.cv_extracted_text[1]
                full == extractedTextOf[cvs[row.cv_file_path]]
                whole == keywordMatch[full, << >>]
            IN  /\ Len(stored) <= 50000
                /\ stored = SubSeq(full, 1, Len(stored))
                /\ (Len(full) <= 50000 => stored = full)
                /\ (Len(full) > 50000 => Len(stored) = 50000)
                /\ row.matched_keywords = <<whole.matchedKeywords>>
                /\ row.keyword_match_score = whole.score

\* the long CV is stored cut off inside its filler; "kotlin", which the stored
\* text does not hold, is among the matched keywords
C13_Witness ==
    \E id \in ApplicantIds :
        /\ rowExists(id)
        /\ cvs[id] = LongCV
        /\ applicants[id].cv_extracted_text # << >>
        /\ Len(applicants[id].cv_extracted_text[1]) = 50000
        /\ ~includes(toLowerCase(applicants[id].cv_extracted_text[1]), "kotlin")
        /\ applicants[id].matched_keywords = << <<"python", "kotlin">> >>
        /\ applicants[id].keyword_match_score = 20

(***************************************************************************)
(* Concurrency: one instance of parse-cv serves the invocations of the     *)
(* form and requests that carry customKeywords, for several applicants at  *)
(* once; the steps of different invocations interleave at every await.     *)
(***************************************************************************)
\* a request {applicantId, cvFilePath, customKeywords} for an applicant's own CV
InvokeParseCv(id, custom) ==
    /\ rowExists(id)
    /\ \A inv \in invocations : ~(inv.caller = "request" /\ inv.applicantId = <<id>>)
    /\ \A r \in responses : ~(r.caller = "request" /\ r.applicantId = <<id>>)
    /\ invocations' = invocations \cup
           {[caller |-> "request", pc |-> "received",
             applicantId |-> <<id>>, cvFilePath |-> <<applicants[id].cv_file_path>>,
             extractedText |-> << >>, customKeywords |-> <<custom>>]}
    /\ UNCHANGED <<applicants, cvs, responses, dashApplicants, keywords, dash, toast,
                   scoreVars, extractVars, otherVars>>

NextConcurrent ==
    \/ \E d \in ConcurrentCVs : Submit(d, SampleForm)
    \/ \E id \in ApplicantIds, custom \in ConcurrentCustomLists : InvokeParseCv(id, custom)
    \/ \E inv \in invocations : ParseCvReceive(inv)
    \/ \E inv \in invocations : ParseCvDownload(inv)
    \/ \E inv \in invocations : ParseCvStore(inv)

SpecConcurrent == Init /\ [][NextConcurrent]_vars

\* what invocation inv stores and answers when it is the only one ever served:
\* calculateKeywordMatch, with the vocabulary the module starts with, on the text
\* of the invocation's document and on its custom terms
resultAlone(inv) ==
    keywordMatch[extractedTextOf[cvs[inv.cvFilePath[1]]],
                 IF inv.customKeywords = << >> THEN << >> ELSE inv.customKeywords[1]]

\* C15: whatever other invocations are in flight, the step in which an invocation
\* stores its result writes to its applicant's row the score, the matched keywords
\* and the text that the invocation yields when it runs alone on that applicant's
\* document and custom terms, and leaves every other applicant's row as it was.
C15_ConcurrentInvocationsDoNotInterfere ==
    [][\A inv \in invocations :
          (inv.pc = "extract" /\ inv \notin invocations') =>
              LET id == inv.applicantId[1]
                  alone == resultAlone(inv)
              IN  /\ applicants'[id].keyword_match_score = alone.score
                  /\ applicants'[id].matched_keywords = <<alone.matchedKeywords>>
                  /\ applicants'[id].cv_extracted_text =
                         <<storedText(extractTextFromPDF(cvs[inv.cvFilePath[1]]))>>
                  /\ \A other \in ApplicantIds \ {id} :
                         applicants'[other] = applicants[other]
      ]_vars

\* the request for applicant 2 with the custom term "and" was served from start to
\* end, and its result is on row 2, while the form's invocation for applicant 1,
\* made before applicant 2 applied, was in flight
C15_Witness ==
    /\ rowExists(1) /\ rowExists(2)
    /\ cvs[1] # cvs[2]
    /\ applicants[1].cv_extracted_text = << >>
    /\ applicants[2].matched_keywords = << <<"kotlin", "go", "and">> >>
    /\ applicants[2].keyword_match_score = 30
    /\ \E inv \in invocations :
        inv.caller = "form" /\ inv.applicantId = <<1>> /\ inv.pc = "extract"
    /\ \E r \in responses :
        /\ r.caller = "request" /\ r.applicantId = <<2>> /\ r.status = 200
        /\ r.matchedKeywords = <<"kotlin", "go", "and">>

(***************************************************************************)
(* The parse-cv handler on any request: a body with or without applicantId *)
(* and cvFilePath, naming a row and a file that exist or do not, and an    *)
(* update that the database carries out or refuses.                        *)
(***************************************************************************)
\* the bodies of the requests: each field is missing or names one of the ids
RequestBodies ==
    [applicantId : {<< >>} \cup {<<id>> : id \in ApplicantIds},
     cvFilePath  : {<< >>} \cup {<<p>> : p \in ApplicantIds}]

\* a request reaches parse-cv; one request is served at a time next to the
\* invocations of the form
Request(body) ==
    /\ \A inv \in invocations : inv.caller # "request"
    /\ \A r \in responses : r.caller # "request"
    /\ invocations' = invocations \cup
           {[caller |-> "request", pc |-> "received",
             applicantId |-> body.applicantId, cvFilePath |-> body.cvFilePath,
             extractedText |-> << >>, customKeywords |-> << >>]}
    /\ UNCHANGED <<applicants, cvs, responses, dashApplicants, keywords, dash, toast,
                   scoreVars, extractVars, otherVars>>

\* the caller of an invocation takes the response
ResponseTaken(r) ==
    /\ r \in responses
    /\ responses' = responses \ {r}
    /\ UNCHANGED <<applicants, cvs, invocations, dashApplicants, keywords, dash, toast,
                   scoreVars, extractVars, otherVars>>

\* mutant of updateFailed: the handler answers success although the update failed
updateFailedSuccess(inv) ==
    [ErrorResponse(inv, 200, "") EXCEPT !.success = TRUE]

\* the response to `if (updateError)`
updateFailed(inv) == ErrorResponse(inv, 500, "Failed to update applicant")

\* parse-cv: extract and score as in ParseCvStore, but the update comes back with
\* updateError: no row is written and the handler answers 500
ParseCvUpdateFails(inv) ==
    /\ inv \in invocations
    /\ inv.pc = "extract"
    /\ respond(inv, updateFailed(inv))
    /\ UNCHANGED <<applicants, cvs, dashApplicants, keywords, dash, toast,
                   scoreVars, extractVars, otherVars>>

NextHandler ==
    \/ \E d \in HandlerCVs : Submit(d, SampleForm)
    \/ \E body \in RequestBodies : Request(body)
    \/ \E inv \in invocations : ParseCvReceive(inv)
    \/ \E inv \in invocations : ParseCvDownload(inv)
    \/ \E inv \in invocations : ParseCvStore(inv)
    \/ \E inv \in invocations : ParseCvUpdateFails(inv)
    \/ \E r \in responses : ResponseTaken(r)

SpecHandler == Init /\ [][NextHandler]_vars

\* the invocation this step ends, as a set, and the response it ends with
ended == {inv \in invocations : inv \notin invocations'}
answered == responses' \ responses

\* this step changes a row that exists
rowChanged == \E id \in ApplicantIds : rowExists(id) /\ applicants'[id] # applicants[id]

\* C25: a step changes an existing row only when it ends an invocation whose
\* request named applicantId and cvFilePath and whose CV was downloaded; a step
\* that answers 400 or "Failed to download CV" changes no row; and a step answers
\* success: true only when the update went through: the row named by applicantId,
\* if there is one, then holds the score and the matched keywords of the answer.
C25_WritesOnlyAfterValidationAndDownload ==
    [][/\ rowChanged =>
              \E inv \in ended :
                  /\ inv.pc = "extract"
                  /\ inv.applicantId # << >> /\ inv.cvFilePath # << >>
                  /\ fileExists(inv.cvFilePath[1])
       /\ \A r \in answered :
              /\ (r.status = 400 \/ r.error = "Failed to download CV") =>
                     applicants' = applicants
              /\ r.status = 400 =>
                     \E inv \in ended : inv.applicantId = << >> \/ inv.cvFilePath = << >>
              /\ r.error = "Failed to download CV" =>
                     \E inv \in ended : ~fileExists(inv.cvFilePath[1])
              /\ r.error = "Failed to update applicant" =>
                     r.status = 500 /\ ~r.success /\ applicants' = applicants
              /\ r.success =>
                     /\ r.status = 200
                     /\ \E inv \in ended : inv.pc = "extract"
                     /\ \A id \in ApplicantIds :
                            (r.applicantId = <<id>> /\ rowExists(id)) =>
                                /\ applicants'[id].keyword_match_score = r.score
                                /\ applicants'[id].matched_keywords = <<r.matchedKeywords>>
      ]_vars

\* a request for applicant 1 that names a file the bucket does not hold has been
\* answered "Failed to download CV"; row 1 holds what the form's invocation, which
\* passed both checks, wrote
C25_Witness ==
    /\ rowExists(1)
    /\ applicants[1].cv_extracted_text # << >>
    /\ ~fileExists(2)
    /\ \E r \in responses :
        /\ r.caller = "request" /\ r.applicantId = <<1>>
        /\ r.status = 500 /\ r.error = "Failed to download CV"

\* a null matched_keywords counts as the empty list
storedKeywords(row) ==
    IF row.matched_keywords = << >> THEN << >> ELSE row.matched_keywords[1]

min(a, b) == IF a < b THEN a ELSE b

\* C26: in every state, whatever invocations have run and are running, for the
\* same applicant or for others, each row's keyword_match_score is
\* min(100, 10 * the number of its stored matched keywords).
C26_ScoreMatchesStoredKeywords ==
    \A id \in ApplicantIds :
        rowExists(id) =>
            applicants[id].keyword_match_score =
                min(100, 10 * Len(storedKeywords(applicants[id])))

\* row 1 was written twice: it belongs to the CV with two matching terms and holds
\* the twelve terms and the score 100 of the other CV, which a request named
C26_Witness ==
    /\ rowExists(1) /\ rowExists(2)
    /\ extractedTextOf[cvs[1]] = "Python AWS"
    /\ Len(storedKeywords(applicants[1])) = 12
    /\ applicants[1].keyword_match_score = 100
    /\ applicants[1].cv_extracted_text # <<"Python AWS">>

(***************************************************************************)
(* The application form (Index.tsx): the file input, onSubmit with its two *)
(* awaits, and the parse-cv invocation it leaves running in the background. *)
(***************************************************************************)
\* const MAX_FILE_SIZE = 5 * 1024 * 1024
MAX_FILE_SIZE == 5 * 1024 * 1024

\* the files an applicant picks: File.type, File.size and the document in it
Files ==
    {[type |-> "application/pdf", size |-> n,
      doc |-> [parses |-> TRUE, pages |-> << <<"Python", "AWS">> >>, badPage |-> 0]] :
        n \in {1024, MAX_FILE_SIZE, MAX_FILE_SIZE + 1}}
    \cup {[type |-> "image/png", size |-> 1024, doc |-> Unparsable]}

\* the first path of the bucket that holds no file, 0 when there is none
freePath ==
    IF \E p \in ApplicantIds : ~fileExists(p)
    THEN CHOOSE p \in ApplicantIds :
             ~fileExists(p) /\ \A q \in 1..(p - 1) : fileExists(q)
    ELSE 0

\* the first id without a row, 0 when there is none
freeId ==
    IF \E id \in ApplicantIds : ~rowExists(id)
    THEN CHOOSE id \in ApplicantIds :
             ~rowExists(id) /\ \A j \in 1..(id - 1) : rowExists(j)
    ELSE 0

\* handleFileChange: e.target.files is `files`, empty when the dialog was cancelled
HandleFileChange(files) ==
    /\ ~isSuccess
    /\ IF files = << >>
       THEN UNCHANGED <<cvFile, formToast>>
       ELSE IF files[1].type # "application/pdf"
       THEN formToast' = "Please upload a PDF file only" /\ UNCHANGED cvFile
       ELSE IF files[1].size > MAX_FILE_SIZE
       THEN formToast' = "File size must be less than 5MB" /\ UNCHANGED cvFile
       ELSE cvFile' = <<files[1]>> /\ UNCHANGED formToast
    /\ UNCHANGED <<isSubmitting, isSuccess, submission, systemVars, scoreVars,
                   extractVars, moduleVars, adminVars>>

\* onSubmit up to its first await: without a CV it shows a toast and returns,
\* with one it starts the upload
OnSubmit(data) ==
    /\ ~isSuccess
    /\ ~isSubmitting
    /\ IF cvFile = << >>
       THEN /\ formToast' = "Please upload your CV"
            /\ UNCHANGED <<isSubmitting, submission>>
       ELSE /\ freePath # 0 /\ freeId # 0
            /\ isSubmitting' = TRUE
            /\ submission' = [pc |-> "upload", file |-> cvFile, data |-> <<data>>,
                              path |-> freePath]
            /\ UNCHANGED formToast
    /\ UNCHANGED <<cvFile, isSuccess, systemVars, scoreVars, extractVars, moduleVars,
                   adminVars>>

\* the catch and finally blocks of onSubmit
submitFailed ==
    /\ formToast' = "Failed to submit application"
    /\ isSubmitting' = FALSE
    /\ submission' = NoSubmission
    /\ UNCHANGED isSuccess

\* the upload returns: with uploadError onSubmit throws, without it the file is in
\* the bucket and the insert is sent
UploadReturns(ok) ==
    /\ submission.pc = "upload"
    /\ IF ok
       THEN /\ cvs' = [cvs EXCEPT ![submission.path] = submission.file[1].doc]
            /\ submission' = [submission EXCEPT !.pc = "insert"]
            /\ UNCHANGED <<isSubmitting, isSuccess, formToast>>
       ELSE submitFailed /\ UNCHANGED cvs
    /\ UNCHANGED <<cvFile, applicants, invocations, responses, dashApplicants, keywords,
                   dash, toast, scoreVars, extractVars, moduleVars, adminVars>>

\* mutant of confirmed: the confirmation does not depend on the insert
confirmedAlways(insertOk) == TRUE

\* whether onSubmit reaches setIsSuccess(true) once the insert has returned
confirmed(insertOk) == insertOk

\* the insert returns: with insertError onSubmit throws; without it parse-cv is
\* invoked and not awaited, and the confirmation is shown
InsertReturns(ok) ==
    /\ submission.pc = "insert"
    /\ IF ok
       THEN /\ applicants' = [applicants EXCEPT ![freeId] =
                                 NewRow(freeId, submission.path, submission.data[1])]
            /\ invocations' = invocations \cup
                   {[caller |-> "form", pc |-> "received",
                     applicantId |-> <<freeId>>, cvFilePath |-> <<submission.path>>,
                     extractedText |-> << >>, customKeywords |-> << >>]}
       ELSE UNCHANGED <<applicants, invocations>>
    /\ IF confirmed(ok)
       THEN /\ isSuccess' = TRUE
            /\ formToast' = "Application submitted successfully!"
            /\ isSubmitting' = FALSE
            /\ submission' = NoSubmission
       ELSE submitFailed
    /\ UNCHANGED <<cvFile, cvs, responses, dashApplicants, keywords, dash, toast,
                   scoreVars, extractVars, moduleVars, adminVars>>

\* the invocation of parse-cv does not get through: the promise rejects and the
\* .catch of onSubmit logs it
InvokeRejects(inv) ==
    /\ inv \in invocations
    /\ inv.caller = "form"
    /\ inv.pc = "received"
    /\ respond(inv, ErrorResponse(inv, 0, "Failed to send a request to the Edge Function"))
    /\ UNCHANGED <<applicants, cvs, dashApplicants, keywords, dash, toast,
                   scoreVars, extractVars, otherVars>>

\* "Submit Another Application": window.location.reload() mounts the form anew
Reload ==
    /\ isSuccess
    /\ cvFile' = << >>
    /\ isSuccess' = FALSE
    /\ formToast' = "none"
    /\ UNCHANGED <<isSubmitting, submission, systemVars, scoreVars, extractVars,
                   moduleVars, adminVars>>

NextForm ==
    \/ \E files \in {<< >>} \cup {<<f>> : f \in Files} : HandleFileChange(files)
    \/ \E data \in Forms : OnSubmit(data)
    \/ \E ok \in BOOLEAN : UploadReturns(ok)
    \/ \E ok \in BOOLEAN : InsertReturns(ok)
    \/ \E inv \in invocations : InvokeRejects(inv)
    \/ \E inv \in invocations : ParseCvReceive(inv)
    \/ \E inv \in invocations : ParseCvDownload(inv)
    \/ \E inv \in invocations : ParseCvStore(inv)
    \/ Reload

SpecForm == Init /\ [][NextForm]_vars

\* this step inserts an applicant row
rowInserted == \E id \in ApplicantIds : ~rowExists(id) /\ rowExists(id)'

\* C16: isSuccess becomes true exactly in the step that inserts the applicant row,
\* and that step belongs to a submission that had a CV selected and whose upload
\* put that CV into the bucket; a submission without a CV or with a failed upload
\* inserts no row; a step of the background parse-cv call leaves isSuccess as it is.
C16_ConfirmationOnlyAfterSuccessfulSubmission ==
    [][/\ (~isSuccess /\ isSuccess') <=> rowInserted
       /\ rowInserted =>
              /\ submission.pc = "insert"
              /\ submission.file # << >>
              /\ fileExists(submission.path)
              /\ cvs[submission.path] = submission.file[1].doc
              /\ \E id \in ApplicantIds :
                     ~rowExists(id) /\ applicants'[id].cv_file_path = submission.path
       /\ (submission.pc = "idle" /\ cvFile = << >>) => ~rowInserted
       /\ (submission.pc = "upload" /\ submission'.pc = "idle") =>
              ~rowInserted /\ ~isSuccess'
       /\ (invocations' # invocations /\ ~rowInserted) => isSuccess' = isSuccess
       /\ responses' # responses => isSuccess' = isSuccess
      ]_vars

\* the confirmation is shown for a stored CV and an inserted row, and the
\* background call has ended without a result
C16_Witness ==
    /\ isSuccess
    /\ rowExists(1)
    /\ fileExists(applicants[1].cv_file_path)
    /\ applicants[1].cv_extracted_text = << >>
    /\ \E r \in responses : r.applicantId = <<1>> /\ ~r.success

\* C17 as stated: a file becomes the CV to submit only if its type is
\* application/pdf and its size is less than 5MB; a selection that is rejected
\* shows an error and leaves cvFile unchanged.
C17_Original ==
    [][cvFile' # cvFile /\ cvFile' # << >> =>
          cvFile'[1].type = "application/pdf" /\ cvFile'[1].size < 5 * 1024 * 1024
      ]_vars

\* the answers this step sends that carry what parse-cv derived from a stored CV:
\* the length of its text, its matched keywords and its score
derivedDataReturned == {r \in responses' \ responses : r.status = 200}

\* C19 as stated: without an authenticated user, no step changes an existing
\* applicant row and no answer carries data derived from a stored CV.
C19_Original ==
    [][~session =>
          /\ \A id \in ApplicantIds : rowExists(id) => applicants'[id] = applicants[id]
          /\ derivedDataReturned = {}
      ]_vars

(***************************************************************************)
(* The admin dashboard (AdminDashboard.tsx).  One handler runs at a time.  *)
(***************************************************************************)
MinUsableLength == 30

\* select("*").order("created_at", { ascending: false }): the rows, newest first
selectApplicants ==
    LET ids == {id \in ApplicantIds : rowExists(id)}
    IN  [n \in 1..Cardinality(ids) |-> applicants[Cardinality(ids) + 1 - n]]

\* the page loads (or is reloaded): fetchApplicants
FetchApplicants ==
    /\ dash.op = "idle"
    /\ dashApplicants' = selectApplicants
    /\ UNCHANGED <<applicants, cvs, invocations, responses, keywords, dash, toast,
                   scoreVars, extractVars, otherVars>>

\* the admin edits the custom-keywords field
TypeKeywords(input) ==
    /\ dash.op = "idle"
    /\ keywords # input
    /\ keywords' = input
    /\ UNCHANGED <<applicants, cvs, invocations, responses, dashApplicants, dash, toast,
                   scoreVars, extractVars, otherVars>>

\* the body analyzeCV and analyzeAllCVs send to parse-cv
analysisRequest(id, extractedText, custom) ==
    [caller |-> "dashboard", pc |-> "received",
     applicantId |-> <<id>>, cvFilePath |-> << >>,
     extractedText |-> <<extractedText>>, customKeywords |-> <<custom>>]

\* analyzeCV up to its first await that leaves the browser: download, extract,
\* the length check, the invocation of parse-cv
AnalyzeCV(n) ==
    /\ dash.op = "idle"
    /\ n \in 1..Len(dashApplicants)
    /\ LET applicant == dashApplicants[n]
           custom == parseKeywords(keywords)
           extraction == blobTextOf[cvs[applicant.cv_file_path]]
       IN  IF ~fileExists(applicant.cv_file_path) \/ extraction.raised
           THEN \* throw downloadError, or the extractor raises: the catch block
                /\ toast' = [kind |-> "Failed to analyze CV", applicantId |-> applicant.id]
                /\ UNCHANGED <<invocations, dash>>
           ELSE IF Len(extraction.text) < MinUsableLength
           THEN /\ toast' = [kind |-> "Could not extract text from PDF",
                             applicantId |-> applicant.id]
                /\ UNCHANGED <<invocations, dash>>
           ELSE /\ invocations' = invocations \cup
                       {analysisRequest(applicant.id, extraction.text, custom)}
                /\ dash' = [op |-> "analyzeCV", pc |-> "invoked",
                            queue |-> <<applicant>>, customKeywords |-> custom]
                /\ UNCHANGED toast
    /\ UNCHANGED <<applicants, cvs, responses, dashApplicants, keywords,
                   scoreVars, extractVars, otherVars>>

\* analyzeCV after supabase.functions.invoke has settled: a non-2xx response is
\* an error and is thrown, otherwise fetchApplicants and the success toast
AnalyzeCVSettled(r) ==
    /\ dash.op = "analyzeCV"
    /\ r \in responses
    /\ r.caller = "dashboard"
    /\ r.applicantId = <<dash.queue[1].id>>
    /\ responses' = responses \ {r}
    /\ IF r.status # 200
       THEN /\ toast' = [kind |-> "Failed to analyze CV", applicantId |-> dash.queue[1].id]
            /\ UNCHANGED dashApplicants
       ELSE /\ dashApplicants' = selectApplicants
            /\ toast' = [kind |-> "CV analyzed!", applicantId |-> dash.queue[1].id]
    /\ dash' = DashIdle
    /\ UNCHANGED <<applicants, cvs, invocations, keywords, scoreVars, extractVars, otherVars>>

\* analyzeAllCVs starts: the keywords are parsed and the loop runs over the state
\* `applicants` as it is now
AnalyzeAllCVs ==
    /\ dash.op = "idle"
    /\ dash' = [op |-> "analyzeAllCVs", pc |-> "loop", queue |-> dashApplicants,
                customKeywords |-> parseKeywords(keywords)]
    /\ toast' = [kind |-> "Analyzing CVs...", applicantId |-> 0]
    /\ UNCHANGED <<applicants, cvs, invocations, responses, dashApplicants, keywords,
                   scoreVars, extractVars, otherVars>>

\* mutant of restOfList: an error in one iteration leaves the loop
restOfListNone(queue) == << >>

\* the applicants the for loop still visits once the catch block of the iteration
\* for the first of `queue` has run
restOfList(queue) == Tail(queue)

\* one iteration up to the invocation: download, extract, skip or invoke
AnalyzeAllStep ==
    /\ dash.op = "analyzeAllCVs"
    /\ dash.pc = "loop"
    /\ dash.queue # << >>
    /\ LET applicant == dash.queue[1]
           extraction == blobTextOf[cvs[applicant.cv_file_path]]
       IN  IF ~fileExists(applicant.cv_file_path) \/ extraction.raised
           THEN \* the catch block logs the error; the loop goes on
                /\ dash' = [dash EXCEPT !.queue = restOfList(@)]
                /\ UNCHANGED invocations
           ELSE IF Len(extraction.text) < MinUsableLength
           THEN \* console.warn("Skipping - no extracted text"); continue
                /\ dash' = [dash EXCEPT !.queue = Tail(@)]
                /\ UNCHANGED invocations
           ELSE /\ invocations' = invocations \cup
                       {analysisRequest(applicant.id, extraction.text, dash.customKeywords)}
                /\ dash' = [dash EXCEPT !.pc = "invoked"]
    /\ UNCHANGED <<applicants, cvs, responses, dashApplicants, keywords, toast,
                   scoreVars, extractVars, otherVars>>

\* the invocation of one iteration has settled; its result is not looked at
AnalyzeAllSettled(r) ==
    /\ dash.op = "analyzeAllCVs"
    /\ dash.pc = "invoked"
    /\ r \in responses
    /\ r.caller = "dashboard"
    /\ r.applicantId = <<dash.queue[1].id>>
    /\ responses' = responses \ {r}
    /\ dash' = [dash EXCEPT !.pc = "loop", !.queue = Tail(@)]
    /\ UNCHANGED <<applicants, cvs, invocations, dashApplicants, keywords, toast,
                   scoreVars, extractVars, otherVars>>

\* after the loop: fetchApplicants and the closing toast
AnalyzeAllDone ==
    /\ dash.op = "analyzeAllCVs"
    /\ dash.pc = "loop"
    /\ dash.queue = << >>
    /\ dashApplicants' = selectApplicants
    /\ toast' = [kind |-> "All CVs analyzed!", applicantId |-> 0]
    /\ dash' = DashIdle
    /\ UNCHANGED <<applicants, cvs, invocations, responses, keywords,
                   scoreVars, extractVars, otherVars>>

Next ==
    \/ \E d \in SampleCVs : Submit(d, SampleForm)
    \/ \E inv \in invocations : ParseCvReceive(inv)
    \/ \E inv \in invocations : ParseCvDownload(inv)
    \/ \E inv \in invocations : ParseCvStore(inv)
    \/ FetchApplicants
    \/ \E input \in KeywordInputs : TypeKeywords(input)
    \/ \E n \in 1..Len(dashApplicants) : AnalyzeCV(n)
    \/ \E r \in responses : AnalyzeCVSettled(r)
    \/ AnalyzeAllCVs
    \/ AnalyzeAllStep
    \/ \E r \in responses : AnalyzeAllSettled(r)
    \/ AnalyzeAllDone

Spec == Init /\ [][Next]_vars

\* a text long enough to be analysed
usable(t) == Len(t) >= MinUsableLength

\* C9 as stated: a caller whose extraction yields fewer than 30 characters treats
\* it as unusable text: parse-cv stores nothing and does not answer success,
\* analyzeCV shows the toast of its own and analyzeAllCVs skips the applicant,
\* neither invoking parse-cv.
C9_Original ==
    [][/\ \A inv \in invocations :
              (ParseCvStore(inv) /\ ~usable(extractTextFromPDF(cvs[inv.cvFilePath[1]])))
                  => /\ applicants' = applicants
                     /\ \A r \in responses' \ responses : ~r.success
       /\ \A n \in 1..Len(dashApplicants) :
              LET e == extractPdfTextFromBlob(cvs[dashApplicants[n].cv_file_path])
              IN  (AnalyzeCV(n) /\ ~e.raised /\ ~usable(e.text))
                      => /\ invocations' = invocations
                         /\ toast'.kind \notin {"CV analyzed!", "Failed to analyze CV"}
       /\ (AnalyzeAllStep /\ ~extractPdfTextFromBlob(cvs[dash.queue[1].cv_file_path]).raised
                          /\ ~usable(extractPdfTextFromBlob(cvs[dash.queue[1].cv_file_path]).text))
              => invocations' = invocations
      ]_vars

(***************************************************************************)
(* analyzeAllCVs as a run: every awaited call settles, so the continuation *)
(* of each await is taken, and parse-cv answers the requests it is sent.   *)
(***************************************************************************)
NextAnalyzeAll ==
    \/ \E d \in SampleCVs : Submit(d, SampleForm)
    \/ \E inv \in invocations : ParseCvReceive(inv)
    \/ \E inv \in invocations : ParseCvDownload(inv)
    \/ \E inv \in invocations : ParseCvStore(inv)
    \/ FetchApplicants
    \/ \E input \in KeywordInputs : TypeKeywords(input)
    \/ AnalyzeAllCVs
    \/ AnalyzeAllStep
    \/ \E r \in responses : AnalyzeAllSettled(r)
    \/ AnalyzeAllDone

SpecAnalyzeAll ==
    /\ Init
    /\ [][NextAnalyzeAll]_vars
    /\ WF_vars(AnalyzeAllStep)
    /\ WF_vars(\E inv \in invocations : inv.caller = "dashboard" /\ ParseCvReceive(inv))
    /\ WF_vars(\E r \in responses : AnalyzeAllSettled(r))
    /\ WF_vars(AnalyzeAllDone)

analyzingAll == dash.op = "analyzeAllCVs"

\* C21: analyzeAllCVs starts with the whole list; each of its steps either sends
\* the request for the applicant at the head of what is left, or is done with
\* that applicant (an error, a short text, or the settled request) and goes on to
\* the next one; it ends only when nothing is left, by refetching the list and
\* showing "All CVs analyzed!"; and a run that has started does end.
C21_AnalyzeAllVisitsEveryApplicantOnce ==
    /\ [][/\ (~analyzingAll /\ analyzingAll') =>
                 dash'.queue = dashApplicants /\ dash'.pc = "loop"
          /\ (analyzingAll /\ analyzingAll' /\ dash' # dash) =>
                 /\ dash.queue # << >>
                 /\ \/ /\ dash.pc = "loop" /\ dash'.pc = "invoked"
                       /\ dash'.queue = dash.queue
                       /\ \E inv \in invocations' \ invocations :
                              inv.applicantId = <<dash.queue[1].id>>
                    \/ /\ dash'.pc = "loop"
                       /\ dash'.queue = Tail(dash.queue)
          /\ (analyzingAll /\ ~analyzingAll') =>
                 /\ dash.queue = << >>
                 /\ dashApplicants' = selectApplicants
                 /\ toast'.kind = "All CVs analyzed!"
          /\ (analyzingAll /\ analyzingAll') => toast'.kind # "All CVs analyzed!"
         ]_vars
    /\ (analyzingAll ~> ~analyzingAll)

\* the first applicant of the list has a CV the extractor raises on, and the run
\* has gone on to the second and sent its request
C21_Witness ==
    /\ analyzingAll
    /\ Len(dashApplicants) = 2
    /\ cvs[dashApplicants[1].cv_file_path] = Unparsable
    /\ dash.queue = <<dashApplicants[2]>>
    /\ dash.pc = "invoked"
    /\ \E inv \in invocations :
        inv.caller = "dashboard" /\ inv.applicantId = <<dashApplicants[2].id>>

\* C20 as stated: a parse-cv invocation of the dashboard, which carries at least
\* 30 characters of extracted text and the custom keywords, ends with the score
\* and the matched keywords of that text and those keywords stored on the
\* applicant's row and answered with success.
C20_Original ==
    [][\A inv \in invocations :
          (inv.caller = "dashboard" /\ inv \notin invocations') =>
              LET id == inv.applicantId[1]
                  result == keywordMatch[inv.extractedText[1], inv.customKeywords[1]]
              IN  /\ usable(inv.extractedText[1])
                  /\ \A r \in responses' \ responses : r.success /\ r.score = result.score
                  /\ applicants'[id].keyword_match_score = result.score
                  /\ applicants'[id].matched_keywords = <<result.matchedKeywords>>
      ]_vars

(***************************************************************************)
(* The admin pages (AdminDashboard.tsx, ApplicantDetail.tsx): the session, *)
(* status updates and the notification function                            *)
(* (send-status-notification/index.ts).  One updateStatus call runs at a   *)
(* time, and no page is opened while it runs.                              *)
(***************************************************************************)
\* mutant of Statuses: "rejected" is no status
StatusesWithoutRejected == {"pending", "reviewed", "accepted"}

\* type ApplicationStatus, and the enum application_status of the column `status`
Statuses == {"pending", "reviewed", "accepted", "rejected"}

DEMO_EMAIL == "ashishupadhyay7353@gmail.com"

LoginPage == Route("/admin/login", 0)
DashboardPage == Route("/admin/dashboard", 0)
DetailPage(id) == Route("/admin/applicant", id)
AdminPaths == {"/admin/dashboard", "/admin/applicant"}

\* the CV of the applicants of this specification
AdminCV == [parses |-> TRUE, pages |-> << <<"Python", "AWS">> >>, badPage |-> 0]

\* who applies in this specification: Aiko Mori first, then Ben Ito, in turns
NextApplicantForm ==
    LET n == Cardinality({id \in ApplicantIds : rowExists(id)})
    IN  CHOOSE data \in Forms : (data.fullName = "Aiko Mori") <=> (n % 2 = 0)

\* what the parts of the system that the admin pages do not drive leave alone
analysisVars == <<cvs, invocations, responses, keywords, dash>>
pureVars == <<scoreVars, extractVars, moduleVars, formVars>>

\* the SELECT policy "Authenticated users can view applicants": the rows a
\* select("*").order("created_at", { ascending: false }) returns to the caller
selectApplicantsAs(authenticated) ==
    IF authenticated THEN selectApplicants ELSE << >>

\* mutant of hasSession: the pages take any answer of getSession() for a session
hasSessionAlways(s) == TRUE

\* `session` as the condition of `if (!session) navigate("/admin/login")`
hasSession(s) == s

\* the admin signs in on the login page
SignIn ==
    /\ ~session
    /\ session' = TRUE
    /\ UNCHANGED <<location, loading, detailApplicant, statusUpdate, notifications, applicants, dashApplicants, toast,
                   analysisVars, pureVars>>

\* the session ends (it is signed out elsewhere or can no longer be refreshed):
\* the onAuthStateChange callback of a mounted admin page gets a null session
\* and navigates to /admin/login, which unmounts the page and drops its state
AuthStateChangeSignedOut ==
    /\ session
    /\ session' = FALSE
    /\ IF location.path \in AdminPaths
       THEN /\ location' = LoginPage
            /\ loading' = FALSE
            /\ dashApplicants' = << >>
            /\ detailApplicant' = << >>
       ELSE UNCHANGED <<location, loading, dashApplicants, detailApplicant>>
    /\ UNCHANGED <<statusUpdate, notifications,
                   applicants, toast, analysisVars, pureVars>>

\* AdminDashboard handleLogout: signOut, then navigate("/admin/login")
HandleLogout ==
    /\ location = DashboardPage
    /\ ~loading
    /\ session' = FALSE
    /\ location' = LoginPage
    /\ dashApplicants' = << >>
    /\ UNCHANGED <<loading, detailApplicant, statusUpdate, notifications, applicants, toast, analysisVars, pureVars>>

\* the browser goes to /admin/dashboard: the page mounts with its initial state
\* and asks for the session
OpenDashboard ==
    /\ statusUpdate = NoStatusUpdate
    /\ location # DashboardPage
    /\ location' = DashboardPage
    /\ loading' = TRUE
    /\ dashApplicants' = << >>
    /\ detailApplicant' = << >>
    /\ UNCHANGED <<session, statusUpdate, notifications,
                   applicants, toast, analysisVars, pureVars>>

\* AdminDashboard useEffect: getSession() resolves; without a session the page
\* navigates to /admin/login, with one it calls fetchApplicants
DashboardSessionLoaded ==
    /\ location = DashboardPage
    /\ loading
    /\ loading' = FALSE
    /\ IF ~hasSession(session)
       THEN location' = LoginPage /\ UNCHANGED dashApplicants
       ELSE dashApplicants' = selectApplicantsAs(session) /\ UNCHANGED location
    /\ UNCHANGED <<session, detailApplicant, statusUpdate, notifications, applicants, toast, analysisVars, pureVars>>

\* the browser goes to /admin/applicant/:id
OpenDetail(id) ==
    /\ statusUpdate = NoStatusUpdate
    /\ location # DetailPage(id)
    /\ location' = DetailPage(id)
    /\ loading' = TRUE
    /\ detailApplicant' = << >>
    /\ dashApplicants' = << >>
    /\ UNCHANGED <<session, statusUpdate, notifications,
                   applicants, toast, analysisVars, pureVars>>

\* ApplicantDetail useEffect: getSession() resolves; without a session the page
\* navigates to /admin/login, with one it calls fetchApplicant, which shows the
\* row or, when .single() finds none, goes to the dashboard
DetailSessionLoaded ==
    /\ location.path = "/admin/applicant"
    /\ loading
    /\ IF ~hasSession(session)
       THEN /\ location' = LoginPage
            /\ loading' = FALSE
            /\ UNCHANGED <<detailApplicant, toast>>
       ELSE IF \E n \in 1..Len(selectApplicantsAs(session)) :
                   selectApplicantsAs(session)[n].id = location.id
       THEN /\ detailApplicant' = <<applicants[location.id]>>
            /\ loading' = FALSE
            /\ UNCHANGED <<location, toast>>
       ELSE /\ toast' = [kind |-> "Failed to load applicant details",
                         applicantId |-> location.id]
            /\ location' = DashboardPage
            /\ loading' = TRUE
            /\ UNCHANGED detailApplicant
    /\ UNCHANGED <<session, statusUpdate, notifications,
                   applicants, dashApplicants, analysisVars, pureVars>>

\* mutant of notificationBody: the status the page still shows is sent
notificationBodyOldStatus(a, newStatus) ==
    [applicantName |-> a.full_name, applicantEmail |-> a.email,
     newStatus |-> a.status, preferredCourse |-> a.preferred_course]

\* the body both pages send to send-status-notification
notificationBody(a, newStatus) ==
    [applicantName |-> a.full_name, applicantEmail |-> a.email,
     newStatus |-> newStatus, preferredCourse |-> a.preferred_course]

\* AdminDashboard updateStatus(applicantId, newStatus) up to its first await: the
\* applicant is looked up in the state `applicants` and the update is sent
UpdateStatusOnDashboard(n, newStatus) ==
    /\ location = DashboardPage
    /\ ~loading
    /\ statusUpdate = NoStatusUpdate
    /\ n \in 1..Len(dashApplicants)
    /\ newStatus \in Statuses
    /\ statusUpdate' = [page |-> "/admin/dashboard", pc |-> "update",
                        id |-> dashApplicants[n].id, newStatus |-> newStatus,
                        applicant |-> <<dashApplicants[n]>>]
    /\ UNCHANGED <<session, location, loading, detailApplicant, notifications, applicants, dashApplicants, toast,
                   analysisVars, pureVars>>

\* ApplicantDetail updateStatus(newStatus) up to its first await
UpdateStatusOnDetail(newStatus) ==
    /\ location.path = "/admin/applicant"
    /\ ~loading
    /\ detailApplicant # << >>
    /\ statusUpdate = NoStatusUpdate
    /\ newStatus \in Statuses
    /\ statusUpdate' = [page |-> "/admin/applicant", pc |-> "update",
                        id |-> detailApplicant[1].id, newStatus |-> newStatus,
                        applicant |-> detailApplicant]
    /\ UNCHANGED <<session, location, loading, detailApplicant, notifications, applicants, dashApplicants, toast,
                   analysisVars, pureVars>>

\* the update comes back without an error: the row has the new status; the page,
\* if it is still shown, takes it over into its state; sendStatusNotification
\* invokes the function
StatusUpdatePersisted ==
    /\ statusUpdate.pc = "update"
    /\ LET id == statusUpdate.id
           newStatus == statusUpdate.newStatus
           body == notificationBody(statusUpdate.applicant[1], newStatus)
       IN  /\ applicants' = [applicants EXCEPT ![id].status = newStatus]
           /\ dashApplicants' =
                  IF statusUpdate.page = "/admin/dashboard" /\ location = DashboardPage
                  THEN [i \in 1..Len(dashApplicants) |->
                           IF dashApplicants[i].id = id
                           THEN [dashApplicants[i] EXCEPT !.status = newStatus]
                           ELSE dashApplicants[i]]
                  ELSE dashApplicants
           /\ detailApplicant' =
                  IF statusUpdate.page = "/admin/applicant" /\ location = DetailPage(id)
                  THEN <<[statusUpdate.applicant[1] EXCEPT !.status = newStatus]>>
                  ELSE detailApplicant
           /\ notifications' = notifications \cup
                  {[pc |-> "sent", ok |-> FALSE, body |-> body, email |-> << >>]}
    /\ statusUpdate' = [statusUpdate EXCEPT !.pc = "notify"]
    /\ UNCHANGED <<session, location, loading, toast, analysisVars, pureVars>>

\* the update comes back with an error: throw error, and the catch block's toast
StatusUpdateFails ==
    /\ statusUpdate.pc = "update"
    /\ toast' = [kind |-> "Failed to update status", applicantId |-> statusUpdate.id]
    /\ statusUpdate' = NoStatusUpdate
    /\ UNCHANGED <<session, location, loading, detailApplicant, notifications, applicants, dashApplicants, analysisVars, pureVars>>

\* getStatusMessage(status, name, course).subject
subjectOf(status) ==
    CASE status = "reviewed" -> "Your Application is Under Review"
      [] status = "accepted" -> "Congratulations! Your Application Has Been Accepted"
      [] status = "rejected" -> "Update on Your Application"
      [] OTHER -> "Application Status Update"

\* what resend.emails.send can do: hand the email on, resolve with an error
\* object, or throw
SendOutcomes == {"sent", "error returned", "thrown"}

\* send-status-notification handler on one request
NotificationHandler(n, outcome) ==
    /\ n \in notifications
    /\ n.pc = "sent"
    /\ LET email == [to |-> DEMO_EMAIL, subject |-> subjectOf(n.body.newStatus),
                     name |-> n.body.applicantName, course |-> n.body.preferredCourse]
       IN  notifications' = (notifications \ {n}) \cup
               {[n EXCEPT !.pc = "answered",
                          !.ok = (outcome # "thrown"),
                          !.email = IF outcome = "sent" THEN <<email>> ELSE << >>]}
    /\ UNCHANGED <<session, location, loading, detailApplicant, statusUpdate,
                   applicants, dashApplicants, toast,
                   analysisVars, pureVars>>

\* mutant of statusToast: a failed notification is reported as a failed update
statusToastAsFailure(emailSent) ==
    IF emailSent THEN "Status updated - Email sent" ELSE "Failed to update status"

\* the toast updateStatus shows once sendStatusNotification has returned emailSent
statusToast(emailSent) ==
    IF emailSent THEN "Status updated - Email sent"
                 ELSE "Status updated (Email notification failed)"

\* sendStatusNotification returns and updateStatus shows its toast
StatusUpdateDone ==
    /\ statusUpdate.pc = "notify"
    /\ \E n \in notifications :
        /\ n.pc = "answered"
        /\ notifications' = notifications \ {n}
        /\ toast' = [kind |-> statusToast(n.ok), applicantId |-> statusUpdate.id]
    /\ statusUpdate' = NoStatusUpdate
    /\ UNCHANGED <<session, location, loading, detailApplicant, applicants, dashApplicants, analysisVars, pureVars>>

NextAdmin ==
    \/ Submit(AdminCV, NextApplicantForm)
    \/ SignIn
    \/ HandleLogout
    \/ AuthStateChangeSignedOut
    \/ OpenDashboard
    \/ DashboardSessionLoaded
    \/ \E id \in ApplicantIds : OpenDetail(id)
    \/ DetailSessionLoaded
    \/ \E n \in 1..Len(dashApplicants), st \in Statuses : UpdateStatusOnDashboard(n, st)
    \/ \E st \in Statuses : UpdateStatusOnDetail(st)
    \/ StatusUpdatePersisted
    \/ StatusUpdateFails
    \/ \E n \in notifications, outcome \in SendOutcomes : NotificationHandler(n, outcome)
    \/ StatusUpdateDone

SpecAdmin == Init /\ [][NextAdmin]_vars

\* this step takes an updateStatus call past `if (error) throw error`: the update
\* was persisted
statusPersisted == statusUpdate.pc = "update" /\ statusUpdate'.pc = "notify"

\* the notification requests this step sends
notificationsSent == {n \in notifications' \ notifications : n.pc = "sent"}

\* C14: a step that persists a status update writes the new status to the row and
\* sends exactly one notification request, which carries that applicant's name,
\* email and preferred course and the new status; no other step sends one, so a
\* request is sent once per persisted update and never before the update succeeded.
C14_NotifiedOncePerPersistedUpdate ==
    [][/\ statusPersisted =>
              LET row == applicants'[statusUpdate.id]
              IN  /\ row.status = statusUpdate.newStatus
                  /\ notificationsSent =
                         {[pc |-> "sent", ok |-> FALSE, email |-> << >>,
                           body |-> [applicantName |-> row.full_name,
                                     applicantEmail |-> row.email,
                                     newStatus |-> statusUpdate.newStatus,
                                     preferredCourse |-> row.preferred_course]]}
       /\ notificationsSent # {} => statusPersisted
       /\ (statusUpdate.pc = "update" /\ statusUpdate'.pc = "idle") =>
              applicants' = applicants
      ]_vars

C14_Witness ==
    /\ rowExists(2)
    /\ applicants[2].status = "accepted"
    /\ statusUpdate.pc = "notify"
    /\ statusUpdate.applicant[1].status = "reviewed"
    /\ notifications = {[pc |-> "sent", ok |-> FALSE, email |-> << >>,
                         body |-> [applicantName |-> "Ben Ito",
                                   applicantEmail |-> "ben@example.com",
                                   newStatus |-> "accepted",
                                   preferredCourse |-> "JLPT N2 Preparation"]]}

\* C22 as stated: when updateStatus shows "Status updated to <status> - Email sent
\* to <applicant email>", the notification it got answered had sent an email, and
\* that email was addressed to the applicant's email address.
C22_Original ==
    [][\A n \in notifications :
          (/\ n.pc = "answered"
           /\ n \notin notifications'
           /\ toast'.kind = "Status updated - Email sent") =>
              /\ n.email # << >>
              /\ n.email[1].to = n.body.applicantEmail
      ]_vars

\* the status the pages show for applicant id, as a set: empty when no page shows
\* that applicant
displayedStatus(id) ==
    {dashApplicants[i].status : i \in {j \in 1..Len(dashApplicants) : dashApplicants[j].id = id}}
    \cup {detailApplicant[i].status : i \in {j \in 1..Len(detailApplicant) : detailApplicant[j].id = id}}

\* C23: the step in which send-status-notification fails, and the step in which
\* updateStatus takes that failure, leave every row and what the pages show as
\* they are; after the latter the stored status and the status a page shows for
\* the applicant are the new status and the toast says the status was updated and
\* the email notification failed.
C23_FailedNotificationKeepsStatus ==
    [][/\ \A n \in notifications :
              (n.pc = "sent" /\ n \notin notifications'
               /\ \E m \in notifications' \ notifications : ~m.ok) =>
                  UNCHANGED <<applicants, dashApplicants, detailApplicant>>
       /\ \A n \in notifications :
              (n.pc = "answered" /\ ~n.ok /\ n \notin notifications') =>
                  /\ UNCHANGED <<applicants, dashApplicants, detailApplicant>>
                  /\ applicants'[statusUpdate.id].status = statusUpdate.newStatus
                  /\ displayedStatus(statusUpdate.id)' \subseteq {statusUpdate.newStatus}
                  /\ toast' = [kind |-> "Status updated (Email notification failed)",
                               applicantId |-> statusUpdate.id]
      ]_vars

\* the notification for Ben Ito's acceptance has failed: the row and the detail
\* page show "accepted" and the toast reports the failed email
C23_Witness ==
    /\ toast = [kind |-> "Status updated (Email notification failed)", applicantId |-> 2]
    /\ rowExists(2)
    /\ applicants[2].status = "accepted"
    /\ location = DetailPage(2)
    /\ displayedStatus(2) = {"accepted"}
    /\ statusUpdate = NoStatusUpdate

\* a page shows its applicants and no updateStatus call is running
dashboardReady == location = DashboardPage /\ ~loading /\ statusUpdate = NoStatusUpdate
detailReady ==
    /\ location.path = "/admin/applicant" /\ ~loading
    /\ detailApplicant # << >> /\ statusUpdate = NoStatusUpdate

\* C24: the status of every row is pending, reviewed, accepted or rejected; on a
\* page that shows an applicant, updateStatus can be called with each of the four
\* statuses whatever the applicant's status is, and the update it sends can be
\* persisted; the step that persists it writes that status; and the step that
\* inserts a row gives it the status pending.
C24_StatusValuesAndTransitions ==
    /\ [](\A id \in ApplicantIds :
              rowExists(id) =>
                  applicants[id].status \in {"pending", "reviewed", "accepted", "rejected"})
    /\ [](\A st \in {"pending", "reviewed", "accepted", "rejected"} :
              /\ dashboardReady =>
                     \A n \in 1..Len(dashApplicants) : ENABLED UpdateStatusOnDashboard(n, st)
              /\ detailReady => ENABLED UpdateStatusOnDetail(st))
    /\ [](statusUpdate.pc = "update" => ENABLED StatusUpdatePersisted)
    /\ [][/\ statusPersisted =>
                 applicants'[statusUpdate.id].status = statusUpdate.newStatus
          /\ \A id \in ApplicantIds :
                 (~rowExists(id) /\ rowExists(id)') => applicants'[id].status = "pending"
         ]_vars

\* an applicant the dashboard showed as rejected has been moved back to pending
C24_Witness ==
    /\ statusUpdate.pc = "notify"
    /\ statusUpdate.page = "/admin/dashboard"
    /\ statusUpdate.applicant[1].status = "rejected"
    /\ statusUpdate.newStatus = "pending"
    /\ applicants[statusUpdate.id].status = "pending"

\* C18: an admin page whose getSession() answers without a session navigates to
\* /admin/login and shows no applicant; an admin page whose session ends
\* navigates to /admin/login; and applicant rows are loaded into a page's state
\* only in a step taken with a session.
C18_AdminPagesLoginProtected ==
    [][/\ (location.path \in AdminPaths /\ loading /\ ~loading' /\ ~session) =>
              /\ location' = LoginPage
              /\ dashApplicants' = << >> /\ detailApplicant' = << >>
       /\ (location.path \in AdminPaths /\ session /\ ~session') =>
              location' = LoginPage
       /\ (loading /\ (dashApplicants' # << >> \/ detailApplicant' # << >>)) => session
       /\ (location'.path \in AdminPaths /\ ~loading') => session'
      ]_vars

\* the session ended while the dashboard, loaded with rows, had a status update
\* running: the browser is on /admin/login and the rows are gone from the page
C18_Witness ==
    /\ ~session
    /\ location = LoginPage
    /\ rowExists(1)
    /\ dashApplicants = << >>
    /\ statusUpdate.page = "/admin/dashboard"
    /\ statusUpdate.pc = "notify"

(***************************************************************************)
(* Status updates beside parse-cv: applicants submit CVs, parse-cv serves  *)
(* the invocations of the form, and an administrator changes statuses on   *)
(* the dashboard while invocations are running.                            *)
(***************************************************************************)

\* the statuses the administrator chooses in this specification: one that
\* differs from the column default and the default itself
ChosenStatuses == {"rejected", "pending"}

NextUpdates ==
    \/ Submit(AdminCV, NextApplicantForm)
    \/ \E inv \in invocations : ParseCvReceive(inv)
    \/ \E inv \in invocations : ParseCvDownload(inv)
    \/ \E inv \in invocations : ParseCvStore(inv)
    \/ SignIn
    \/ OpenDashboard
    \/ DashboardSessionLoaded
    \/ \E n \in 1..Len(dashApplicants), st \in ChosenStatuses : UpdateStatusOnDashboard(n, st)
    \/ StatusUpdatePersisted
    \/ StatusUpdateFails
    \/ \E n \in notifications, outcome \in SendOutcomes : NotificationHandler(n, outcome)
    \/ StatusUpdateDone

SpecUpdates == Init /\ [][NextUpdates]_vars

\* the columns the parse-cv update names
parseColumns(row) ==
    <<row.cv_extracted_text, row.matched_keywords, row.keyword_match_score>>

\* the invocations whose update of the table is part of this step
updating == {inv \in ended : inv.pc = "extract"}

====
